---- MODULE Spec2Model ----
(***************************************************************************)
(* Model of the resolvers of @livepeer/graphql-sdk (src/index.js):         *)
(* transformJob, createResolvers (DEAD_JOBS, Query.job, Query.jobs,        *)
(* VideoJob.live, VideoJob.url).                                           *)
(*                                                                         *)
(* JavaScript runs one task at a time, so every action below is the code   *)
(* that runs between two suspension points (await of the RPC fetch, await  *)
(* of the HTTP fetch, await of Promise.all).  The RPC collaborator and the *)
(* HTTP endpoint are the environment: what they answer, and when, is       *)
(* nondeterministic.                                                       *)
(***************************************************************************)
EXTENDS Integers, Sequences, FiniteSets, TLC

VARIABLES
  DEAD_JOBS,  \* the Set of line 291: ids of jobs whose probe threw
  DEAD_JOBS_2,  \* the Set of a second object returned by createResolvers
  calls,      \* one record per resolver invocation (its position and locals)
  nFetch      \* number of fetch(videoUrl) invocations so far (line 336)

vars == <<DEAD_JOBS, DEAD_JOBS_2, calls, nFetch>>

---------------------------------------------------------------------------
(* Bounds *)

\* longest sequence getJobs() answers with
MaxJobs == 2

\* The resolver invocations of one run: two, which may overlap in any way.
Calls == {1, 2}

---------------------------------------------------------------------------
(* Data of the collaborators *)

DEFAULT_STREAM_ROOT == "http://streams.livepeer.org"

\* The raw job records the RPC collaborator holds. Job 1 has no transcoding
\* options, jobs 2 and 3 have one and two.
Option1 == [hash |-> "h1", name |-> "P1", bitrate |-> "1000k",
            framerate |-> 30, resolution |-> "1280x720"]
Option2 == [hash |-> "h2", name |-> "P2", bitrate |-> "400k",
            framerate |-> 15, resolution |-> "640x360"]

Ledger ==
  <<[jobId |-> 1, streamId |-> "s1", transcodingOptions |-> <<>>,
     transcoder |-> "0xT", broadcaster |-> "0xB"],
    [jobId |-> 2, streamId |-> "s2", transcodingOptions |-> <<Option1>>,
     transcoder |-> "0xT", broadcaster |-> "0xB"],
    [jobId |-> 3, streamId |-> "s3", transcodingOptions |-> <<Option1, Option2>>,
     transcoder |-> "0xT", broadcaster |-> "0xB"]>>

JobIds == DOMAIN Ledger

\* Sequences of raw records getJobs() may answer with: any jobs of the
\* ledger, each at most once, in any order.
RECURSIVE SeqsUpTo(_, _)
SeqsUpTo(S, n) ==
  IF n = 0 THEN {<<>>}
  ELSE LET shorter == SeqsUpTo(S, n - 1)
       IN  shorter \cup {Append(s, x) : s \in {t \in shorter : Len(t) = n - 1}, x \in S}

RpcResults ==
  {t \in SeqsUpTo({Ledger[i] : i \in JobIds}, MaxJobs) :
     \A i, j \in DOMAIN t : i # j => t[i] # t[j]}

\* Errors the RPC collaborator may reject with
RpcErrors == {"rpc: timeout", "rpc: revert"}

\* What a fetch() may end with: a response with a status, or a rejection
\* (transport error, timeout)
Statuses == {200, 404}
Throw == "throw"
Outcomes == [kind : {"response"}, status : Statuses] \cup
            {[kind |-> Throw, error |-> "fetch: failed"]}

\* streamRootUrl arguments of live() and url()
StreamRoots == {DEFAULT_STREAM_ROOT, "http://root/"}
\* streamRootUrl argument of jobs(): the default the schema declares (line 250)
JobsRoots == {DEFAULT_STREAM_ROOT}

---------------------------------------------------------------------------
(* transformJob, lines 271-289 *)

transformProfile(option) ==
  [id |-> option.hash, name |-> option.name, bitrate |-> option.bitrate,
   framerate |-> option.framerate, resolution |-> option.resolution]

\* transformJob taking a single transcoding option for none
transformJob_offbyone(raw) ==
  [type |-> IF Len(raw.transcodingOptions) > 1 THEN "VideoJob" ELSE "TestJob",
   id |-> raw.jobId,
   broadcaster |-> raw.broadcaster,
   profiles |-> [i \in 1..Len(raw.transcodingOptions) |->
                   transformProfile(raw.transcodingOptions[i])],
   stream |-> raw.streamId,
   transcoder |-> raw.transcoder]

transformJob(raw) ==
  [type |-> IF Len(raw.transcodingOptions) # 0 THEN "VideoJob" ELSE "TestJob",
   id |-> raw.jobId,
   broadcaster |-> raw.broadcaster,
   profiles |-> [i \in 1..Len(raw.transcodingOptions) |->
                   transformProfile(raw.transcodingOptions[i])],
   stream |-> raw.streamId,
   transcoder |-> raw.transcoder]

---------------------------------------------------------------------------
(* VideoJob.url, lines 343-346 *)

\* A job field that destructuring leaves undefined is a field the record
\* does not have. The fields live and url, when present in the model's jobs,
\* hold a boolean and a string.
Has(job, field) == field \in DOMAIN job

RECURSIVE IndexFrom(_, _, _)
\* first position >= i of character ch in s, 0 if none
IndexFrom(s, ch, i) ==
  IF i > Len(s) THEN 0
  ELSE IF SubSeq(s, i, i) = ch THEN i
  ELSE IndexFrom(s, ch, i + 1)

RECURSIVE LastIndex(_, _, _)
\* last position <= i of character ch in s, 0 if none
LastIndex(s, ch, i) ==
  IF i < 1 THEN 0
  ELSE IF SubSeq(s, i, i) = ch THEN i
  ELSE LastIndex(s, ch, i - 1)

\* Url.resolve(from, to) of node's url module, for the arguments the resolvers
\* pass: from is '' or an absolute http url without query or fragment, to is
\* a single path segment. The last segment of from's path is replaced by to.
UrlResolve(from, to) ==
  IF from = "" THEN to
  ELSE LET hostStart == IndexFrom(from, ":", 1) + 3
           pathStart == IndexFrom(from, "/", hostStart)
       IN  IF pathStart = 0 THEN from \o "/" \o to
           ELSE SubSeq(from, 1, LastIndex(from, "/", Len(from))) \o to

\* streamRootUrl || '' : an argument left out, or the empty string, is ''
RootOf(args) == IF Has(args, "streamRootUrl") THEN args.streamRootUrl ELSE ""

\* url() without the test of line 344
url_resolved(job, args) == UrlResolve(RootOf(args), job.stream \o ".m3u8")

url(job, args) ==
  IF Has(job, "url") THEN job.url
  ELSE UrlResolve(RootOf(args), job.stream \o ".m3u8")

---------------------------------------------------------------------------
(* VideoJob.live, lines 325-342 *)

\* live() without the lookup of line 330
live_start_nolookup(job, args, dead) ==
  IF Has(job, "live") THEN [pc |-> "done", ret |-> job.live]
  ELSE [pc |-> "fetch",
        videoUrl |-> url([f \in DOMAIN job \cap {"stream", "url"} |-> job[f]], args)]

\* live() with the lookup of line 330 ahead of the test of line 326
live_start_lookupfirst(job, args, dead) ==
  IF job.id \in dead THEN [pc |-> "done", ret |-> FALSE]
  ELSE IF Has(job, "live") THEN [pc |-> "done", ret |-> job.live]
  ELSE [pc |-> "fetch",
        videoUrl |-> url([f \in DOMAIN job \cap {"stream", "url"} |-> job[f]], args)]

\* The part of live() that runs before its await: lines 326-336. It ends
\* either with the value returned or with a fetch of videoUrl in flight.
live_start(job, args, dead) ==
  IF Has(job, "live") THEN [pc |-> "done", ret |-> job.live]
  ELSE IF job.id \in dead THEN [pc |-> "done", ret |-> FALSE]
  ELSE [pc |-> "fetch",
        videoUrl |-> url([f \in DOMAIN job \cap {"stream", "url"} |-> job[f]], args)]

\* line 337 taking any response for success
live_status_any(res) == res.status >= 200

\* line 337: the value returned when the fetch resolves with a response
live_status(res) == res.status = 200

\* a catch block that records the id and throws the error on
live_catch_rethrow(id, err, dead) ==
  [kind |-> "throw", error |-> err, dead |-> dead \cup {id}]

\* lines 338-341: the catch block, entered when the awaited fetch rejects
live_catch(id, err, dead) ==
  [kind |-> "return", ret |-> FALSE, dead |-> dead \cup {id}]

\* live() forgetting a dead id when a later response is 200
live_resume_revive(id, outcome, dead) ==
  IF outcome.kind = Throw
  THEN live_catch(id, outcome.error, dead)
  ELSE [kind |-> "return", ret |-> live_status(outcome),
        dead |-> IF live_status(outcome) THEN dead \ {id} ELSE dead]

\* live() keeping in DEAD_JOBS the verdict of the latest fetch only
live_resume_lastwins(id, outcome, dead) ==
  IF outcome.kind = Throw
  THEN live_catch(id, outcome.error, dead)
  ELSE [kind |-> "return", ret |-> live_status(outcome), dead |-> dead \ {id}]

\* live() recording the id after every fetch
live_resume_addalways(id, outcome, dead) ==
  IF outcome.kind = Throw
  THEN live_catch(id, outcome.error, dead)
  ELSE [kind |-> "return", ret |-> live_status(outcome), dead |-> dead \cup {id}]

\* The part of live() that runs after its await, lines 336-341: how live()
\* ends (it returns ret, or it throws error) and the DEAD_JOBS it leaves.
live_resume(id, outcome, dead) ==
  IF outcome.kind = Throw
  THEN live_catch(id, outcome.error, dead)
  ELSE [kind |-> "return", ret |-> live_status(outcome), dead |-> dead]

---------------------------------------------------------------------------
(* Query.jobs, lines 298-317: the callback mapped over the jobs *)

\* the callback without the isTest shortcut of lines 302-306
mapper_start_notest(job, args, dead) ==
  LET base == [job |-> job, deadAtStart |-> job.id \in dead, called |-> TRUE]
      l == live_start(job, args, dead)
  IN  IF l.pc = "done"
      THEN base @@ [pc |-> "done", fetches |-> 0, live |-> l.ret, url |-> url(job, args)]
      ELSE base @@ [pc |-> "fetch", fetches |-> 1, videoUrl |-> l.videoUrl]

\* the callback storing the promise of live() without awaiting it: its
\* object is ready at once, with a live that is not true, the fetch pending
mapper_start_noawait(job, args, dead) ==
  LET isTest == job.type = "TestJob"
      base == [job |-> job, deadAtStart |-> job.id \in dead, called |-> ~isTest,
               pc |-> "done", live |-> FALSE, url |-> url(job, args)]
  IN  IF isTest \/ live_start(job, args, dead).pc = "done"
      THEN base @@ [fetches |-> 0]
      ELSE base @@ [fetches |-> 1]

\* lines 302-309 up to the first await that suspends: the entry of one job
\* once its callback has run as far as it can. deadAtStart records whether
\* the id was in DEAD_JOBS when the callback started.
mapper_start(job, args, dead) ==
  LET isTest == job.type = "TestJob"
      base == [job |-> job, deadAtStart |-> job.id \in dead, called |-> ~isTest]
  IN  IF isTest
      THEN base @@ [pc |-> "done", fetches |-> 0, live |-> FALSE, url |-> url(job, args)]
      ELSE LET l == live_start(job, args, dead)
           IN  IF l.pc = "done"
               THEN base @@ [pc |-> "done", fetches |-> 0, live |-> l.ret,
                             url |-> url(job, args)]
               ELSE base @@ [pc |-> "fetch", fetches |-> 1, videoUrl |-> l.videoUrl]

\* a callback that fetches once more when live() has returned false
mapper_resume_retry(entry, args, ret, outcome) ==
  IF ret = FALSE /\ entry.fetches < 2
  THEN [entry EXCEPT !.fetches = 2]
  ELSE [job |-> entry.job, deadAtStart |-> entry.deadAtStart, called |-> entry.called,
        pc |-> "done", fetches |-> entry.fetches, outcome |-> outcome,
        live |-> ret, url |-> url(entry.job, args)]

\* lines 303-313 after live() has returned ret: the object the callback yields
mapper_resume(entry, args, ret, outcome) ==
  [job |-> entry.job, deadAtStart |-> entry.deadAtStart, called |-> entry.called,
   pc |-> "done", fetches |-> entry.fetches, outcome |-> outcome,
   live |-> ret, url |-> url(entry.job, args)]

\* The element of the array jobs() returns for an entry: {...job, live, url}
assembled(entry) == [live |-> entry.live, url |-> entry.url] @@ entry.job

RECURSIVE SelectLive(_)
\* jobs.filter(x => x.live === true), line 316
SelectLive(jobs) ==
  IF jobs = <<>> THEN <<>>
  ELSE IF Head(jobs).live = TRUE
       THEN <<Head(jobs)>> \o SelectLive(Tail(jobs))
       ELSE SelectLive(Tail(jobs))

\* line 316 with the branches exchanged
jobs_result_swapped(dead, jobs) == IF dead THEN SelectLive(jobs) ELSE jobs

RECURSIVE Reverse(_)
Reverse(q) == IF q = <<>> THEN <<>> ELSE Append(Reverse(Tail(q)), Head(q))

\* line 316 on an array collected back to front
jobs_result_reversed(dead, jobs) ==
  IF dead THEN Reverse(jobs) ELSE SelectLive(Reverse(jobs))

\* line 316 without the filter
jobs_result_unfiltered(dead, jobs) == jobs

\* line 316
jobs_result(dead, jobs) == IF dead THEN jobs ELSE SelectLive(jobs)

\* job() deriving live and url as jobs() does for a TestJob
job_result_derived(raw) ==
  [live |-> FALSE, url |-> url(transformJob(raw), [streamRootUrl |-> DEFAULT_STREAM_ROOT])]
  @@ transformJob(raw)

\* line 296: what job() returns for the record the RPC answered with
job_result(raw) == transformJob(raw)

---------------------------------------------------------------------------
(* State machine *)

Idle == [op |-> "idle"]

Init ==
  /\ DEAD_JOBS = {}
  /\ DEAD_JOBS_2 = {}
  /\ calls = [c \in Calls |-> Idle]
  /\ nFetch = 0

\* The job ids for which a liveness check of a job without boolean live has
\* returned false so far ("previously found to be dead", line 328)
FoundDead ==
  {calls[c].job.id :
     c \in {d \in Calls : /\ calls[d].op = "live" /\ calls[d].pc = "done"
                          /\ ~Has(calls[d].job, "live") /\ calls[d].ret = FALSE}}
  \cup
  UNION {{calls[c].entries[i].job.id :
            i \in {j \in DOMAIN calls[c].entries :
                     /\ calls[c].entries[j].called
                     /\ calls[c].entries[j].pc = "done"
                     /\ calls[c].entries[j].live = FALSE}} :
         c \in {d \in Calls : calls[d].op = "jobs" /\ "entries" \in DOMAIN calls[d]}}

\* Invocations take the slots of calls in order.
Free(c) == calls[c] = Idle /\ (IF c = 1 THEN TRUE ELSE calls[c - 1] # Idle)

\* a rejection that replaces the error
rejection_replaced(err) == "Internal error"

\* What an async function rejects with when a promise it awaits outside any
\* try block rejects with err (lines 296, 299, 300)
rejection(err) == err

\* job(_, {id}) up to its await: livepeer.rpc.getJob(id) is in flight
CallJob(c, id) ==
  /\ Free(c)
  /\ calls' = [calls EXCEPT ![c] = [op |-> "job", pc |-> "rpc", id |-> id]]
  /\ UNCHANGED <<DEAD_JOBS, DEAD_JOBS_2, nFetch>>

\* getJob(id) resolves: job() returns the transformed record
JobRpcReturn(c) ==
  /\ calls[c].op = "job" /\ calls[c].pc = "rpc"
  /\ calls' = [calls EXCEPT ![c] =
                 [pc |-> "done", result |-> job_result(Ledger[calls[c].id])]
                 @@ calls[c]]
  /\ UNCHANGED <<DEAD_JOBS, DEAD_JOBS_2, nFetch>>

\* getJob(id) rejects with err: job() rejects
JobRpcFail(c, err) ==
  /\ calls[c].op = "job" /\ calls[c].pc = "rpc"
  /\ calls' = [calls EXCEPT ![c] =
                 [pc |-> "failed", rpcError |-> err, error |-> rejection(err)]
                 @@ calls[c]]
  /\ UNCHANGED <<DEAD_JOBS, DEAD_JOBS_2, nFetch>>

\* jobs(_, {dead, streamRootUrl, ...filters}) up to its first await:
\* livepeer.rpc.getJobs(filters) is in flight
CallJobs(c, dead, root) ==
  /\ Free(c)
  /\ calls' = [calls EXCEPT ![c] =
                 [op |-> "jobs", pc |-> "rpc", dead |-> dead,
                  args |-> [streamRootUrl |-> root]]]
  /\ UNCHANGED <<DEAD_JOBS, DEAD_JOBS_2, nFetch>>

\* Number of entries with a fetch in flight
RECURSIVE Fetching(_)
Fetching(entries) ==
  IF entries = <<>> THEN 0
  ELSE (IF Head(entries).pc = "fetch" THEN 1 ELSE 0) + Fetching(Tail(entries))

\* lines 300-314 up to Promise.all: the callback has run on every job
jobs_start(results, args, dead) ==
  [i \in 1..Len(results) |-> mapper_start(transformJob(results[i]), args, dead)]

\* getJobs(filters) resolves with results: every callback runs to its await
JobsRpcReturn(c, results) ==
  /\ calls[c].op = "jobs" /\ calls[c].pc = "rpc"
  /\ LET entries == jobs_start(results, calls[c].args, DEAD_JOBS)
     IN  /\ calls' = [calls EXCEPT ![c] =
                        [pc |-> "all", results |-> results, entries |-> entries]
                        @@ calls[c]]
         /\ nFetch' = nFetch + Fetching(entries)
  /\ UNCHANGED <<DEAD_JOBS, DEAD_JOBS_2>>

\* getJobs(filters) rejects with err: jobs() rejects
JobsRpcFail(c, err) ==
  /\ calls[c].op = "jobs" /\ calls[c].pc = "rpc"
  /\ calls' = [calls EXCEPT ![c] =
                 [pc |-> "failed", rpcError |-> err, error |-> rejection(err)]
                 @@ calls[c]]
  /\ UNCHANGED <<DEAD_JOBS, DEAD_JOBS_2, nFetch>>

\* The fetch of entry i of jobs() call c ends. live() resumes; when it
\* returns, the callback yields its object; were it to throw, the callback,
\* Promise.all and jobs() would reject in turn.
JobsFetchDone(c, i, outcome) ==
  /\ calls[c].op = "jobs" /\ calls[c].pc = "all"
  /\ i \in DOMAIN calls[c].entries
  /\ calls[c].entries[i].pc = "fetch"
  /\ LET e == calls[c].entries[i]
         r == live_resume(e.job.id, outcome, DEAD_JOBS)
     IN  /\ DEAD_JOBS' = r.dead
         /\ calls' =
              IF r.kind = "return"
              THEN [calls EXCEPT ![c].entries[i] =
                      mapper_resume(e, calls[c].args, r.ret, outcome)]
              ELSE [calls EXCEPT ![c] =
                      [pc |-> "failed", error |-> rejection(r.error)] @@ calls[c]]
  /\ UNCHANGED <<DEAD_JOBS_2, nFetch>>

\* Whether Promise.all(entries) has resolved
all_done(entries) == \A i \in DOMAIN entries : entries[i].pc = "done"

\* Promise.all resolves: jobs() returns, line 316
JobsReturn(c) ==
  /\ calls[c].op = "jobs" /\ calls[c].pc = "all"
  /\ all_done(calls[c].entries)
  /\ calls' = [calls EXCEPT ![c] =
                 [pc |-> "done",
                  result |-> jobs_result(calls[c].dead,
                                         [i \in DOMAIN calls[c].entries |->
                                            assembled(calls[c].entries[i])])]
                 @@ calls[c]]
  /\ UNCHANGED <<DEAD_JOBS, DEAD_JOBS_2, nFetch>>

\* Jobs the schema hands to VideoJob.live and VideoJob.url (lines 198, 211):
\* a VideoJob as job() returns it, or as jobs() returns it (live and url set)
VideoJobs == {j \in {transformJob(Ledger[i]) : i \in JobIds} : j.type = "VideoJob"}

FieldJobs ==
  VideoJobs \cup
  {[live |-> b, url |-> url(j, [streamRootUrl |-> DEFAULT_STREAM_ROOT])] @@ j :
     j \in VideoJobs, b \in BOOLEAN}

\* live(job, {streamRootUrl}) called by itself, up to its return or its await.
\* deadAtStart records whether the id was in DEAD_JOBS when live() started;
\* notes are further records of the moment of the call.
StartLive(c, job, root, notes) ==
  /\ Free(c)
  /\ LET args == [streamRootUrl |-> root]
         l == live_start(job, args, DEAD_JOBS)
         n == IF l.pc = "fetch" THEN 1 ELSE 0
     IN  /\ calls' = [calls EXCEPT ![c] =
                        [op |-> "live", job |-> job, args |-> args,
                         deadAtStart |-> job.id \in DEAD_JOBS, fetches |-> n]
                        @@ l @@ notes]
         /\ nFetch' = nFetch + n
  /\ UNCHANGED <<DEAD_JOBS, DEAD_JOBS_2>>

CallLive(c, job, root) == StartLive(c, job, root, <<>>)

\* The same call, noting whether the id had been found dead by then
CallLiveNoted(c, job, root) ==
  StartLive(c, job, root, [foundDeadAtStart |-> job.id \in FoundDead])

\* The fetch of live() call c ends: live() returns (or would throw)
LiveFetchDone(c, outcome) ==
  /\ calls[c].op = "live" /\ calls[c].pc = "fetch"
  /\ LET r == live_resume(calls[c].job.id, outcome, DEAD_JOBS)
     IN  /\ DEAD_JOBS' = r.dead
         /\ calls' = [calls EXCEPT ![c] =
                        (IF r.kind = "return"
                         THEN [pc |-> "done", ret |-> r.ret, outcome |-> outcome]
                         ELSE [pc |-> "failed", error |-> r.error, outcome |-> outcome])
                        @@ calls[c]]
  /\ UNCHANGED <<DEAD_JOBS_2, nFetch>>

\* url(job, {streamRootUrl}) called by itself: it returns at once
CallUrl(c, job, root) ==
  /\ Free(c)
  /\ calls' = [calls EXCEPT ![c] =
                 [op |-> "url", pc |-> "done", job |-> job,
                  args |-> [streamRootUrl |-> root],
                  ret |-> url(job, [streamRootUrl |-> root])]]
  /\ UNCHANGED <<DEAD_JOBS, DEAD_JOBS_2, nFetch>>

Next ==
  \/ \E c \in Calls, id \in JobIds : CallJob(c, id)
  \/ \E c \in Calls : JobRpcReturn(c)
  \/ \E c \in Calls, err \in RpcErrors : JobRpcFail(c, err)
  \/ \E c \in Calls, dead \in BOOLEAN, root \in JobsRoots : CallJobs(c, dead, root)
  \/ \E c \in Calls, results \in RpcResults : JobsRpcReturn(c, results)
  \/ \E c \in Calls, err \in RpcErrors : JobsRpcFail(c, err)
  \/ \E c \in Calls, i \in 1..MaxJobs, outcome \in Outcomes : JobsFetchDone(c, i, outcome)
  \/ \E c \in Calls : JobsReturn(c)
  \/ \E c \in Calls, job \in FieldJobs, root \in StreamRoots : CallLive(c, job, root)
  \/ \E c \in Calls, outcome \in Outcomes : LiveFetchDone(c, outcome)
  \/ \E c \in Calls, job \in FieldJobs, root \in StreamRoots \cup {""} : CallUrl(c, job, root)

Spec == Init /\ [][Next]_vars

\* Calls of live() alone, each noting what had been found before it
NextLive ==
  \/ \E c \in Calls, job \in FieldJobs, root \in StreamRoots : CallLiveNoted(c, job, root)
  \/ \E c \in Calls, outcome \in Outcomes : LiveFetchDone(c, outcome)

SpecLive == Init /\ [][NextLive]_vars

\* What DEAD_JOBS may hold when a call starts: ids of VideoJobs, added by
\* line 339 in earlier checks
DeadSets == SUBSET {j.id : j \in VideoJobs}

\* A jobs() call on an object whose earlier checks have left DEAD_JOBS as
\* any such set
InitJobs ==
  /\ DEAD_JOBS \in DeadSets
  /\ DEAD_JOBS_2 = {}
  /\ calls = [c \in Calls |-> Idle]
  /\ nFetch = 0

\* The steps of that call
NextJobs ==
  \/ \E dead \in BOOLEAN, root \in JobsRoots : CallJobs(1, dead, root)
  \/ \E results \in RpcResults : JobsRpcReturn(1, results)
  \/ \E err \in RpcErrors : JobsRpcFail(1, err)
  \/ \E i \in 1..MaxJobs, outcome \in Outcomes : JobsFetchDone(1, i, outcome)
  \/ JobsReturn(1)

\* getJobs(filters) of call c settles
JobsRpcSettles(c) ==
  \/ \E results \in RpcResults : JobsRpcReturn(c, results)
  \/ \E err \in RpcErrors : JobsRpcFail(c, err)

\* the fetch of entry i of call c settles
JobsFetchSettles(c, i) == \E outcome \in Outcomes : JobsFetchDone(c, i, outcome)

\* The collaborators settle every promise they have handed out, and the
\* event loop runs every continuation that is ready (lines 299, 300, 336).
FairJobs ==
  /\ InitJobs /\ [][NextJobs]_vars
  /\ WF_vars(JobsRpcSettles(1))
  /\ WF_vars(JobsReturn(1))
  /\ \A i \in 1..MaxJobs : WF_vars(JobsFetchSettles(1, i))

\* Two objects returned by two calls of createResolvers: the first one is
\* the one of all the actions above
Resolvers == {1, 2}

\* one Set for the module, whatever the object
DeadJobsOf_module(r) == DEAD_JOBS

\* The Set of the closure of object r: line 291 runs once per call of
\* createResolvers
DeadJobsOf(r) == IF r = 1 THEN DEAD_JOBS ELSE DEAD_JOBS_2

\* The objects on which a check of job id has ended in the catch block
FailedOn(id) ==
  {calls[c].resolvers :
     c \in {d \in Calls : /\ calls[d].op = "live"
                          /\ calls[d].job.id = id
                          /\ "outcome" \in DOMAIN calls[d]
                          /\ calls[d].outcome.kind = Throw}}

\* live(job, {streamRootUrl}) of object r, up to its return or its await;
\* failedBefore records the objects on which a check of this job had ended
\* in the catch block by then
CallLiveOn(c, r, job, root) ==
  /\ Free(c)
  /\ LET args == [streamRootUrl |-> root]
         l == live_start(job, args, DeadJobsOf(r))
         n == IF l.pc = "fetch" THEN 1 ELSE 0
     IN  /\ calls' = [calls EXCEPT ![c] =
                        [op |-> "live", resolvers |-> r, job |-> job, args |-> args,
                         failedBefore |-> FailedOn(job.id), fetches |-> n]
                        @@ l]
         /\ nFetch' = nFetch + n
  /\ UNCHANGED <<DEAD_JOBS, DEAD_JOBS_2>>

\* The fetch of that call ends: live() returns (or would throw), and what it
\* adds goes to the Set of its own object
LiveFetchDoneOn(c, outcome) ==
  /\ calls[c].op = "live" /\ calls[c].pc = "fetch"
  /\ LET r == live_resume(calls[c].job.id, outcome, DeadJobsOf(calls[c].resolvers))
     IN  /\ IF calls[c].resolvers = 1
            THEN DEAD_JOBS' = r.dead /\ UNCHANGED DEAD_JOBS_2
            ELSE DEAD_JOBS_2' = r.dead /\ UNCHANGED DEAD_JOBS
         /\ calls' = [calls EXCEPT ![c] =
                        (IF r.kind = "return"
                         THEN [pc |-> "done", ret |-> r.ret, outcome |-> outcome]
                         ELSE [pc |-> "failed", error |-> r.error, outcome |-> outcome])
                        @@ calls[c]]
  /\ UNCHANGED nFetch

NextTwo ==
  \/ \E c \in Calls, r \in Resolvers, job \in FieldJobs, root \in StreamRoots :
        CallLiveOn(c, r, job, root)
  \/ \E c \in Calls, outcome \in Outcomes : LiveFetchDoneOn(c, outcome)

SpecTwo == Init /\ [][NextTwo]_vars

---------------------------------------------------------------------------
(* Properties *)

\* The liveness checks made so far: the calls of live() by itself and the
\* calls of live() by the callback of jobs()
Checks ==
  {calls[c] : c \in {d \in Calls : calls[d].op = "live"}} \cup
  UNION {{calls[c].entries[i] :
            i \in {j \in DOMAIN calls[c].entries : calls[c].entries[j].called}} :
         c \in {d \in Calls : calls[d].op = "jobs" /\ "entries" \in DOMAIN calls[d]}}

CheckId(k) == k.job.id
Explicit(k) == Has(k.job, "live")
Done(k) == k.pc = "done"
\* the value the check returned (the callback stores it as live)
Ret(k) == IF "ret" \in DOMAIN k THEN k.ret ELSE k.live
Fetched(k) == "outcome" \in DOMAIN k
Is200(o) == o.kind = "response" /\ o.status = 200
Pc(c) == IF "pc" \in DOMAIN calls[c] THEN calls[c].pc ELSE "idle"
Finished(c) == Pc(c) \in {"done", "failed"}

\* C1 as stated: a liveness check that starts when its job id is in DEAD_JOBS
\* returns false and issues no fetch, whatever the job and streamRootUrl.
C1_Original ==
  \A k \in Checks :
    k.deadAtStart => k.fetches = 0 /\ Done(k) /\ Ret(k) = FALSE

\* C1 (amended): a liveness check that starts when its job id is in
\* DEAD_JOBS issues no fetch and returns at once; it returns false whenever
\* the job carries no boolean live of its own.
C1_DeadStaysDead ==
  \A k \in Checks :
    k.deadAtStart => k.fetches = 0 /\ Done(k) /\ (~Explicit(k) => Ret(k) = FALSE)

\* a check of a job without live, started with its id in DEAD_JOBS, under a
\* root other than the default one
C1_Witness ==
  \E k \in Checks :
    /\ k.deadAtStart /\ ~Explicit(k) /\ Done(k)
    /\ "args" \in DOMAIN k /\ k.args.streamRootUrl # DEFAULT_STREAM_ROOT

\* C2: no step removes an id from DEAD_JOBS.
C2_Monotonic == [][DEAD_JOBS \subseteq DEAD_JOBS']_vars

\* both invocations are over, the second one started with an id in DEAD_JOBS
\* and the id is still there
C2_Witness ==
  /\ \A c \in Calls : Finished(c)
  /\ \E k \in Checks : k.deadAtStart /\ CheckId(k) \in DEAD_JOBS

\* C3 as stated: a check whose fetch ended with a status other than 200 or
\* with a rejection has returned false and its job id is in DEAD_JOBS.
C3_Original ==
  \A k \in Checks :
    (Done(k) /\ Fetched(k) /\ ~Is200(k.outcome))
      => Ret(k) = FALSE /\ CheckId(k) \in DEAD_JOBS

\* The jobs() calls that have returned
Returned == {c \in Calls : calls[c].op = "jobs" /\ calls[c].pc = "done"}
\* The jobs() calls whose RPC fetch has resolved
Fetched_(c) == calls[c].op = "jobs" /\ "entries" \in DOMAIN calls[c]
\* Indexes of the entries of call c whose derived live is true
LiveEntries(c) ==
  {i \in DOMAIN calls[c].entries : calls[c].entries[i].live = TRUE}

\* C4: a jobs() call with dead = false returns exactly the jobs whose derived
\* live is true, a call with dead = true returns every job the RPC answered
\* with, each with its derived live.
C4_JobsFilter ==
  \A c \in Returned :
    LET e == calls[c].entries
        r == calls[c].result
    IN  IF calls[c].dead
        THEN /\ Len(r) = Len(calls[c].results)
             /\ \A i \in DOMAIN calls[c].results :
                  \E j \in DOMAIN r : /\ r[j].id = calls[c].results[i].jobId
                                      /\ r[j].live = e[i].live
        ELSE /\ Len(r) = Cardinality(LiveEntries(c))
             /\ \A j \in DOMAIN r : r[j].live = TRUE
             /\ \A i \in LiveEntries(c) : \E j \in DOMAIN r : r[j].id = e[i].job.id
             /\ \A j \in DOMAIN r : \E i \in LiveEntries(c) : r[j].id = e[i].job.id

\* a jobs() call with dead = false has returned one of two jobs, the other
\* one not being live
C4_Witness ==
  \E c \in Returned :
    /\ ~calls[c].dead
    /\ Len(calls[c].entries) = 2
    /\ Len(calls[c].result) = 1

\* C5: in a jobs() call the entry of a TestJob never has live() called for
\* it, has no fetch, has live = false, and is in the result of the call only
\* when dead = true; the id of a TestJob is never in DEAD_JOBS.
C5_TestJob ==
  /\ \A c \in {d \in Calls : Fetched_(d)} :
       \A i \in DOMAIN calls[c].entries :
         LET e == calls[c].entries[i]
         IN  e.job.type = "TestJob" =>
               /\ ~e.called /\ e.fetches = 0 /\ e.pc = "done" /\ e.live = FALSE
               /\ e.job.profiles = <<>>
               /\ c \in Returned =>
                    (calls[c].dead <=>
                       \E j \in DOMAIN calls[c].result :
                         calls[c].result[j].id = e.job.id)
               /\ c \in Returned =>
                    \A j \in DOMAIN calls[c].result :
                      calls[c].result[j].id = e.job.id =>
                        calls[c].result[j].live = FALSE
  /\ \A i \in JobIds : Ledger[i].transcodingOptions = <<>> => i \notin DEAD_JOBS

\* a jobs() call with dead = true has returned a TestJob next to a VideoJob
\* whose fetch was rejected
C5_Witness ==
  \E c \in Returned :
    /\ calls[c].dead
    /\ \E j \in DOMAIN calls[c].result : calls[c].result[j].type = "TestJob"
    /\ \E i \in DOMAIN calls[c].entries :
         /\ Fetched(calls[c].entries[i])
         /\ calls[c].entries[i].outcome.kind = Throw

\* C6: a liveness check of a job without boolean live, started when the id
\* is not in DEAD_JOBS, issues exactly one fetch, and returns true if and
\* only if that fetch resolves with status 200.
C6_ProbeDecides ==
  \A k \in Checks :
    (~Explicit(k) /\ ~k.deadAtStart) =>
      /\ k.fetches = 1
      /\ k.pc \in {"fetch", "done"}
      /\ Done(k) => Fetched(k) /\ (Ret(k) = TRUE <=> Is200(k.outcome))

\* checks of both kinds have ended: one with true after a 200, one with
\* false after a 404
C6_Witness ==
  /\ \E k \in Checks : ~Explicit(k) /\ ~k.deadAtStart /\ Done(k) /\ Ret(k) = TRUE
  /\ \E k \in Checks : /\ ~Explicit(k) /\ ~k.deadAtStart /\ Done(k)
                       /\ Ret(k) = FALSE /\ k.outcome.kind = "response"

\* C7: when the RPC fetch of job() or jobs() rejects, the call rejects with
\* the error the RPC rejected with and has no result; the step leaves
\* DEAD_JOBS and the number of fetches as they were, and the call has issued
\* no fetch.
C7_RpcFailure ==
  [][\A c \in Calls :
       (Pc(c) = "rpc" /\ calls'[c].pc = "failed") =>
         /\ calls'[c].error = calls'[c].rpcError
         /\ calls'[c].rpcError \in RpcErrors
         /\ DOMAIN calls'[c] \cap {"result", "entries"} = {}
         /\ DEAD_JOBS' = DEAD_JOBS
         /\ nFetch' = nFetch]_vars

\* a jobs() call and a job() call have both failed on their RPC fetch
C7_Witness ==
  /\ \E c \in Calls : calls[c].op = "jobs" /\ Pc(c) = "failed"
  /\ \E c \in Calls : calls[c].op = "job" /\ Pc(c) = "failed"

\* C8: a rejected fetch never makes live() or jobs() fail: the check returns
\* false, a jobs() call whose RPC fetch resolved never fails and returns a
\* result, and the live derived for an entry follows from the outcome of
\* its own fetch alone.
C8_ProbeErrorsSwallowed ==
  /\ \A k \in Checks :
       (Fetched(k) /\ k.outcome.kind = Throw) => Done(k) /\ Ret(k) = FALSE
  /\ \A c \in Calls : calls[c].op = "live" => Pc(c) # "failed"
  /\ \A c \in Calls :
       Fetched_(c) =>
         /\ Pc(c) \in {"all", "done"}
         /\ Pc(c) = "done" => "result" \in DOMAIN calls[c]
         /\ \A i \in DOMAIN calls[c].entries :
              LET e == calls[c].entries[i]
              IN  (Done(e) /\ Fetched(e)) => (e.live <=> Is200(e.outcome))

\* a jobs() call has returned after one of its fetches was rejected and
\* another one answered 200, the job of the latter being live
C8_Witness ==
  \E c \in Returned :
    \E i, j \in DOMAIN calls[c].entries :
      /\ Fetched(calls[c].entries[i]) /\ calls[c].entries[i].outcome.kind = Throw
      /\ Fetched(calls[c].entries[j]) /\ Is200(calls[c].entries[j].outcome)
      /\ calls[c].entries[j].live = TRUE

\* C9: every step of a job() call leaves DEAD_JOBS and the number of
\* fetches as they were, and the job it returns is the record of the asked
\* id with neither live nor url.
C9_JobFrame ==
  [][\A c \in Calls :
       (calls'[c].op = "job" /\ calls'[c] # calls[c]) =>
         /\ DEAD_JOBS' = DEAD_JOBS
         /\ nFetch' = nFetch
         /\ calls'[c].pc = "done" =>
              /\ DOMAIN calls'[c].result \cap {"live", "url"} = {}
              /\ calls'[c].result.id = calls'[c].id
              /\ calls'[c].result.stream = Ledger[calls'[c].id].streamId]_vars

\* job() has returned the job of an id that is in DEAD_JOBS
C9_Witness ==
  \E c \in Calls :
    /\ calls[c].op = "job" /\ Pc(c) = "done"
    /\ calls[c].id \in DEAD_JOBS

\* Position of the job with this id in the sequence the RPC answered with
PosIn(results, id) == CHOOSE i \in DOMAIN results : results[i].jobId = id

\* C10: the result of jobs() lists jobs of the RPC answer in the order of
\* the RPC answer; with dead = true it has the length of the RPC answer and
\* the same job at every index.
C10_OrderKept ==
  \A c \in Returned :
    LET r == calls[c].result
        q == calls[c].results
    IN  /\ \A j \in DOMAIN r : \E i \in DOMAIN q : q[i].jobId = r[j].id
        /\ \A j, k \in DOMAIN r : j < k => PosIn(q, r[j].id) < PosIn(q, r[k].id)
        /\ calls[c].dead =>
             /\ Len(r) = Len(q)
             /\ \A i \in DOMAIN q : r[i].id = q[i].jobId

\* a jobs() call has returned two live jobs that the RPC answered with in
\* descending order of id
C10_Witness ==
  \E c \in Returned :
    /\ ~calls[c].dead
    /\ Len(calls[c].result) = 2
    /\ calls[c].results[1].jobId > calls[c].results[2].jobId

\* The liveness checks made by invocation c
ChecksOf(c) ==
  IF calls[c].op = "live" THEN {calls[c]}
  ELSE IF Fetched_(c)
       THEN {calls[c].entries[i] :
               i \in {j \in DOMAIN calls[c].entries : calls[c].entries[j].called}}
       ELSE {}

Threw(k) == Fetched(k) /\ k.outcome.kind = Throw

\* C11: when two checks of one job id, made by two invocations, have each
\* issued a fetch and both have ended, the id is in DEAD_JOBS if and only if
\* one of the two fetches was rejected, in whichever order they ended.
C11_InsertsCommute ==
  \A c1, c2 \in Calls :
    \A k1 \in ChecksOf(c1), k2 \in ChecksOf(c2) :
      (c1 # c2 /\ CheckId(k1) = CheckId(k2)
         /\ k1.fetches = 1 /\ k2.fetches = 1 /\ Done(k1) /\ Done(k2))
        => (CheckId(k1) \in DEAD_JOBS <=> (Threw(k1) \/ Threw(k2)))

\* two checks of one id both have their fetch in flight and the id is not
\* in DEAD_JOBS
C11_Witness ==
  \E c1, c2 \in Calls :
    \E k1 \in ChecksOf(c1), k2 \in ChecksOf(c2) :
      /\ c1 # c2 /\ CheckId(k1) = CheckId(k2)
      /\ k1.pc = "fetch" /\ k2.pc = "fetch"
      /\ CheckId(k1) \notin DEAD_JOBS

\* The jobs that job() and jobs() have returned
ReturnedJobs ==
  {calls[c].result : c \in {d \in Calls : calls[d].op = "job" /\ Pc(d) = "done"}} \cup
  UNION {{calls[c].result[j] : j \in DOMAIN calls[c].result} : c \in Returned}

\* C12: every job returned by job() or jobs() has type TestJob if it has no
\* profiles and type VideoJob otherwise, and its profiles are the
\* transcoding options of the raw record, in number and in order.
C12_TypeFollowsProfiles ==
  \A r \in ReturnedJobs :
    LET options == Ledger[r.id].transcodingOptions
    IN  /\ r.type = (IF r.profiles = <<>> THEN "TestJob" ELSE "VideoJob")
        /\ Len(r.profiles) = Len(options)
        /\ \A i \in DOMAIN options : r.profiles[i].id = options[i].hash

\* job() has returned a job with two profiles and jobs() one with none and
\* one with a single profile
C12_Witness ==
  /\ \E c \in Calls : /\ calls[c].op = "job" /\ Pc(c) = "done"
                      /\ Len(calls[c].result.profiles) = 2
  /\ \E c \in Returned :
       /\ \E j \in DOMAIN calls[c].result : calls[c].result[j].type = "TestJob"
       /\ \E j \in DOMAIN calls[c].result : Len(calls[c].result[j].profiles) = 1

\* C13: a call of url() for a job that carries a url returns that url,
\* whatever streamRootUrl is, and leaves DEAD_JOBS and the number of fetches
\* as they were.
C13_UrlKept ==
  [][\A c \in Calls :
       (calls[c] = Idle /\ calls'[c].op = "url") =>
         /\ calls'[c].pc = "done"
         /\ Has(calls'[c].job, "url") => calls'[c].ret = calls'[c].job.url
         /\ DEAD_JOBS' = DEAD_JOBS
         /\ nFetch' = nFetch]_vars

\* url() has returned the url of its job, under a root that resolves to
\* another one, while an id is in DEAD_JOBS
C13_Witness ==
  \E c \in Calls :
    /\ calls[c].op = "url" /\ Has(calls[c].job, "url")
    /\ calls[c].ret = calls[c].job.url
    /\ calls[c].ret # url_resolved(calls[c].job, calls[c].args)
    /\ DEAD_JOBS # {}

\* C14: a call of live() for a job that carries a boolean live returns that
\* value at once, issues no fetch and leaves DEAD_JOBS as it was, also when
\* the id is in DEAD_JOBS.
C14_ExplicitLive ==
  [][\A c \in Calls :
       (calls[c] = Idle /\ calls'[c].op = "live" /\ Has(calls'[c].job, "live")) =>
         /\ calls'[c].pc = "done"
         /\ calls'[c].ret = calls'[c].job.live
         /\ calls'[c].fetches = 0
         /\ DEAD_JOBS' = DEAD_JOBS
         /\ nFetch' = nFetch]_vars

\* live() has returned true for a job with live = true whose id was in
\* DEAD_JOBS
C14_Witness ==
  \E c \in Calls :
    /\ calls[c].op = "live" /\ Has(calls[c].job, "live")
    /\ calls[c].job.live = TRUE /\ calls[c].ret = TRUE
    /\ calls[c].deadAtStart

\* C15 as stated: a liveness check of a job without boolean live that
\* starts after such a check of the same id has returned false does not
\* return true.
C15_Original ==
  \A k \in Checks :
    (~Explicit(k) /\ k.foundDeadAtStart /\ Done(k)) => Ret(k) = FALSE

\* C16: when jobs() has returned, every callback has ended, every fetch it
\* issued has ended, and the id of every job whose fetch was rejected is in
\* DEAD_JOBS.
C16_JoinBeforeReturn ==
  \A c \in Returned :
    \A i \in DOMAIN calls[c].entries :
      LET e == calls[c].entries[i]
      IN  /\ e.pc = "done"
          /\ e.fetches = 1 => Fetched(e)
          /\ Threw(e) => e.job.id \in DEAD_JOBS

\* jobs() has returned after two fetches, one rejected and one answered
C16_Witness ==
  \E c \in Returned :
    \E i, j \in DOMAIN calls[c].entries :
      /\ Threw(calls[c].entries[i])
      /\ calls[c].entries[i].job.id \in DEAD_JOBS
      /\ Fetched(calls[c].entries[j]) /\ calls[c].entries[j].outcome.kind = "response"

\* C17: DEAD_JOBS holds only ids of jobs for which a liveness check ended in
\* the catch block: it is empty as long as no fetch was rejected, a fetch
\* answered with 200 adds nothing, and the id of a job never checked is not
\* in it.
C17_OnlyFailedChecks ==
  /\ DEAD_JOBS \subseteq {CheckId(k) : k \in {x \in Checks : Threw(x)}}
  /\ (\A k \in Checks : ~Threw(k)) => DEAD_JOBS = {}

\* one check has ended with true after a 200 and its id is not in
\* DEAD_JOBS, while the id of a check whose fetch was rejected is
C17_Witness ==
  /\ \E k \in Checks : /\ Fetched(k) /\ Is200(k.outcome) /\ Ret(k) = TRUE
                       /\ CheckId(k) \notin DEAD_JOBS
  /\ \E k \in Checks : Threw(k) /\ CheckId(k) \in DEAD_JOBS

\* Two jobs() calls that differ in dead only: same RPC answer, every job
\* in DEAD_JOBS at the start of both or of neither, same outcome for the
\* fetches both issued
SameRun(c1, c2) ==
  /\ c1 \in Returned /\ c2 \in Returned
  /\ calls[c1].dead /\ ~calls[c2].dead
  /\ calls[c1].results = calls[c2].results
  /\ \A i \in DOMAIN calls[c1].entries :
       LET e1 == calls[c1].entries[i]
           e2 == calls[c2].entries[i]
       IN  /\ e1.deadAtStart = e2.deadAtStart
           /\ (Fetched(e1) /\ Fetched(e2)) => e1.outcome = e2.outcome

\* C19: two such calls issue the same fetches, add the same ids to
\* DEAD_JOBS, and the result with dead = false is the result with
\* dead = true without the entries whose live is not true.
C19_DeadOnlyFilters ==
  \A c1, c2 \in Calls :
    SameRun(c1, c2) =>
      LET e1 == calls[c1].entries
          e2 == calls[c2].entries
          all == calls[c1].result
          kept == calls[c2].result
          liveAt == {i \in DOMAIN all : all[i].live = TRUE}
      IN  /\ \A i \in DOMAIN e1 :
               /\ e1[i].fetches = e2[i].fetches
               /\ Fetched(e1[i]) = Fetched(e2[i])
               /\ Threw(e1[i]) = Threw(e2[i])
          /\ Len(kept) = Cardinality(liveAt)
          /\ \A i \in liveAt :
               kept[Cardinality({j \in liveAt : j <= i})] = all[i]

\* two such calls have returned, one with two jobs and one with one of them
C19_Witness ==
  \E c1, c2 \in Calls :
    /\ SameRun(c1, c2)
    /\ Len(calls[c1].result) = 2
    /\ Len(calls[c2].result) = 1

\* C18: a check of a job without boolean live returns without a fetch if
\* and only if a check of the same job on the same object had ended in the
\* catch block before it started: a rejection met through another object
\* never spares the fetch, one met through the same object always does.
C18_CachesIndependent ==
  \A c \in Calls :
    (calls[c].op = "live" /\ ~Explicit(calls[c])) =>
      /\ calls[c].fetches = 0 <=> calls[c].resolvers \in calls[c].failedBefore
      /\ (calls[c].fetches = 0) => (Done(calls[c]) /\ Ret(calls[c]) = FALSE)

\* a check has issued its fetch and returned true although a check of the
\* same job on the other object had ended in the catch block before
C18_Witness ==
  \E c \in Calls :
    /\ calls[c].op = "live" /\ ~Explicit(calls[c]) /\ Done(calls[c])
    /\ calls[c].failedBefore # {}
    /\ calls[c].resolvers \notin calls[c].failedBefore
    /\ calls[c].fetches = 1 /\ Ret(calls[c]) = TRUE
    /\ DEAD_JOBS # DEAD_JOBS_2

\* the entries of jobs() call c, once getJobs has resolved
EntriesOf(c) == IF Fetched_(c) THEN calls[c].entries ELSE <<>>

\* C20: every jobs() call eventually ends; it issues one fetch at most for
\* each VideoJob of the RPC result, none for a TestJob and none once it has
\* ended; as long as one of its fetches is in flight it stays pending, and
\* only the end of that fetch ends the wait for it.
C20_Terminates ==
  /\ \A c \in Calls : (calls[c].op = "jobs") ~> Finished(c)
  /\ [](\A c \in Calls :
          /\ \A i \in DOMAIN EntriesOf(c) :
               LET e == EntriesOf(c)[i]
               IN  /\ e.fetches <= 1
                   /\ e.job.type = "TestJob" => e.fetches = 0
                   /\ e.pc = "fetch" => e.fetches = 1 /\ ~Fetched(e)
                   /\ (e.pc = "done" /\ e.fetches = 1) => Fetched(e)
          /\ (\E i \in DOMAIN EntriesOf(c) : EntriesOf(c)[i].pc = "fetch")
               => Pc(c) = "all")
  /\ [][\A c \in Calls : Finished(c) => calls'[c] = calls[c]]_vars

\* a jobs() call has returned two VideoJobs after one fetch, rejected: the
\* other job was in DEAD_JOBS from the start
C20_Witness ==
  \E c \in Returned :
    /\ Len(calls[c].entries) = 2 /\ nFetch = 1
    /\ \E i, j \in DOMAIN calls[c].entries :
         /\ calls[c].entries[i].fetches = 1 /\ Threw(calls[c].entries[i])
         /\ calls[c].entries[j].fetches = 0 /\ calls[c].entries[j].called

====
